---------------------------- MODULE Spec2Model ----------------------------
(***************************************************************************)
(* Model of the three derive macros of unprolix (src/src/lib.rs):          *)
(* Constructor, Getters and Setters, and of the attribute scanner          *)
(* search_for_attribute they share.                                        *)
(*                                                                         *)
(* One behaviour is one macro invocation.  The initial state fixes the     *)
(* parsed DeriveInput and the derive that was requested; each action       *)
(* consumes one field of the struct the way the iterator chain of the      *)
(* macro does (filter_map closure, then fold / collect closure), and a     *)
(* last action performs the quote! expansion and returns the TokenStream.  *)
(* A panic (unwrap on Err / None, panic!, parse_quote! failure) ends the   *)
(* invocation with nothing returned.                                       *)
(***************************************************************************)
EXTENDS Integers, Sequences, FiniteSets, TLC

VARIABLES
    input,      \* the parsed DeriveInput: [ident, data, fields]
    derive,     \* which proc_macro_derive was invoked
    pc,         \* "run" | "done" | "panic"
    i,          \* number of pairs of f.named already consumed
    values,     \* constructor: Punctuated<FieldValue>
    args,       \* constructor: Punctuated<Field> collected so far
    block,      \* getters / setters: block.stmts accumulated by the fold
    expanded,   \* the returned TokenStream: [impl, fns]; NoTokens until returned
    msg         \* panic message, "" when no panic

vars == <<input, derive, pc, i, values, args, block, expanded, msg>>

-----------------------------------------------------------------------------
(* Bounds of the explored inputs *)

MaxFields == 2      \* fields of a struct in the generation inputs
MaxAttrs == 2       \* attributes on the field of the scanner inputs
MaxItems == 2       \* nested meta items on the field of the scanner inputs

-----------------------------------------------------------------------------
(* syn data: nested meta items, attributes, types, fields *)

\* NestedMeta: Meta(m) with the first token of m.to_token_stream(), or Lit
MetaIdent(s) == [nm |-> "Meta", tt |-> "Ident", s |-> s]
MetaColon2   == [nm |-> "Meta", tt |-> "Punct", s |-> ":"]    \* e.g. ::skip
NestedLit    == [nm |-> "Lit",  tt |-> "Literal", s |-> "1"]

\* Attribute, by the result of parse_meta()
AttrList(nested) == [meta |-> "List", nested |-> nested]     \* #[x(...)]
AttrPath         == [meta |-> "Path", nested |-> <<>>]       \* #[x]
AttrNameValue    == [meta |-> "NameValue", nested |-> <<>>]  \* #[doc = ".."]
AttrErr          == [meta |-> "Err", nested |-> <<>>]        \* #[x(a b)]: parse_meta is Err

\* GenericArgument
ArgType(t)     == [arg |-> "Type", tok |-> t]
ArgLifetime(t) == [arg |-> "Lifetime", tok |-> t]

\* PathSegment and Type
Seg(id)            == [ident |-> id, arguments |-> "None", args |-> <<>>]
SegAngle(id, as)   == [ident |-> id, arguments |-> "AngleBracketed", args |-> as]
SegParen(id)       == [ident |-> id, arguments |-> "Parenthesized", args |-> <<>>]
TypePath(segs)     == [kind |-> "Path", segments |-> segs]

TyU8       == TypePath(<<Seg("u8")>>)                                  \* u8
TyVecU8    == TypePath(<<SegAngle("Vec", <<ArgType("u8")>>)>>)         \* Vec<u8>
TyHashMap  == TypePath(<<SegAngle("HashMap",
                           <<ArgType("String"), ArgType("i32")>>)>>)   \* HashMap<String, i32>
TyStdVec   == TypePath(<<Seg("std"), Seg("vec"),
                         SegAngle("Vec", <<ArgType("u8")>>)>>)        \* std::vec::Vec<u8>
TyVecNone  == TypePath(<<SegAngle("Vec", <<>>)>>)                      \* Vec<>
TyCow      == TypePath(<<SegAngle("Cow",
                           <<ArgLifetime("'a"), ArgType("str")>>)>>)   \* Cow<'a, str>
TyFn       == TypePath(<<SegParen("Fn")>>)                             \* Fn(u8)
TyArray    == [kind |-> "Array", segments |-> <<>>]                    \* [u8; 4]
TyRef      == [kind |-> "Reference", segments |-> <<>>]                \* &'static str

FieldNames == <<"a", "b", "c", "d">>

MkField(id, ty, vis, attrs) ==
    [ident |-> id, ty |-> ty, vis |-> vis, attrs |-> attrs, colon_token |-> TRUE]

-----------------------------------------------------------------------------
(* Explored inputs *)

Derives == {"Constructor", "Getters", "Setters"}

unprolix(items) == <<AttrList(items)>>

\* Generation inputs: up to MaxFields fields, every directive combination the
\* generators distinguish, a scalar and a container type, both visibilities.
GenAttrs ==
    { <<>>,
      unprolix(<<MetaIdent("default")>>),
      unprolix(<<MetaIdent("skip")>>),
      unprolix(<<MetaIdent("copy")>>),
      unprolix(<<MetaIdent("as_slice")>>),
      unprolix(<<MetaIdent("copy"), MetaIdent("as_slice")>>),
      <<AttrErr>> }
GenTypes == {TyU8, TyVecU8}
GenVis   == {"Public", "Inherited"}

GenShapes == [ty : GenTypes, vis : GenVis, attrs : GenAttrs]

\* the struct whose k-th field is named FieldNames[k] and shaped c[k]
GenInput(c) ==
    [ident |-> "S", data |-> "Named",
     fields |-> [k \in 1..Len(c) |->
                    MkField(FieldNames[k], c[k].ty, c[k].vis, c[k].attrs)]]

\* Inputs that are not a struct with named fields.  A tuple struct still has
\* (unnamed) fields, with attributes of their own.
OtherInputs ==
    {[ident |-> "S", data |-> "Unnamed", fields |-> <<MkField("0", TyU8, "Inherited", at)>>] :
        at \in {<<>>, unprolix(<<MetaIdent("as_slice")>>), <<AttrErr>>}}
    \cup
    {[ident |-> "S", data |-> d, fields |-> <<>>] : d \in {"Unit", "Enum", "Union"}}

\* Scanner inputs: one field, attribute lists of every form parse_meta and the
\* nested iteration distinguish.
ScanItems == {MetaIdent("default"), MetaIdent("skip"), MetaColon2, NestedLit}
ScanAttrOfLen(k) ==
    (IF k = 0 THEN {AttrPath, AttrNameValue, AttrErr} ELSE {})
    \cup {AttrList(nested) : nested \in [1..k -> ScanItems]}
\* attribute lists of at most n attributes holding at most m nested items in all
RECURSIVE ScanAttrs(_, _)
ScanAttrs(n, m) ==
    IF n = 0 THEN {<<>>}
    ELSE {<<>>} \cup
         UNION { {<<a>> \o as : a \in ScanAttrOfLen(k), as \in ScanAttrs(n - 1, m - k)} :
                 k \in 0..m }
ScanInputs ==
    {[ident |-> "S", data |-> "Named",
      fields |-> <<MkField("a", TyVecU8, "Inherited", as)>>] :
        as \in ScanAttrs(MaxAttrs, MaxItems)}

\* Extraction inputs: an ordinary private field, then a field whose declared
\* type takes every form the as_slice branch distinguishes.
ExtractTypes ==
    {TyU8, TyVecU8, TyHashMap, TyStdVec, TyVecNone, TyCow, TyFn, TyArray, TyRef}
ExtractAttrs ==
    { unprolix(<<MetaIdent("as_slice")>>),
      unprolix(<<MetaIdent("as_slice"), MetaIdent("copy")>>),
      unprolix(<<MetaIdent("skip"), MetaIdent("as_slice")>>) }
ExtractInputs ==
    {[ident |-> "S", data |-> "Named",
      fields |-> <<MkField("a", TyU8, "Inherited", <<>>), MkField("b", ty, vis, at)>>] :
        ty \in ExtractTypes, vis \in {"Inherited", "Restricted", "Public"},
        at \in ExtractAttrs}

SmallInputs == OtherInputs \cup ScanInputs \cup ExtractInputs

-----------------------------------------------------------------------------
(* Panic messages *)

ResultUnwrapMsg == "called Result::unwrap() on an Err value"
OptionUnwrapMsg == "called Option::unwrap() on a None value"
VectorTypeMsg   == "Vector type expected"
OnlyVecMsg      == "as_slice is expected only for Vec types"
ParseQuoteMsg   == "parse_quote!: the tokens are no function item"

Ok(r)       == [panic |-> FALSE, msg |-> ""] @@ r
Panic(m, r) == [panic |-> TRUE, msg |-> m] @@ r

NoTokens == [impl |-> "", fns |-> <<>>]

-----------------------------------------------------------------------------
(* search_for_attribute *)

\* l.nested.iter().for_each(...): sets attr on a Meta item whose first token
\* is the identifier `attribute`
RECURSIVE nested_for_each(_, _, _)
nested_for_each(nested, attribute, attr) ==
    IF nested = <<>> THEN attr
    ELSE LET l == Head(nested)
         IN  nested_for_each(Tail(nested), attribute,
                IF l.nm = "Meta" /\ l.tt = "Ident" /\ l.s = attribute
                THEN TRUE ELSE attr)

\* for a in f.attrs.iter() { match a.parse_meta().unwrap() {...} }
RECURSIVE attrs_loop(_, _, _)
attrs_loop(attrs, attribute, attr) ==
    IF attrs = <<>> THEN Ok([attr |-> attr])
    ELSE LET a == Head(attrs)
         IN  IF a.meta = "Err" THEN Panic(ResultUnwrapMsg, [attr |-> attr])
             ELSE IF a.meta = "List"
                  THEN attrs_loop(Tail(attrs), attribute,
                                  nested_for_each(a.nested, attribute, attr))
                  ELSE attrs_loop(Tail(attrs), attribute, attr)

search_for_attribute(f, attribute) == attrs_loop(f.attrs, attribute, FALSE)

-----------------------------------------------------------------------------
(* constructor *)

\* faulty variant: a defaulted field still becomes a parameter
constructor_filter_map_param_for_default(p) ==
    LET ident   == p.ident
        default == search_for_attribute(p, "default")
        arg     == [p EXCEPT !.attrs = <<>>, !.vis = "Inherited", !.colon_token = FALSE]
    IN  IF default.panic
        THEN Panic(default.msg, [values |-> <<>>, args |-> <<>>])
        ELSE IF default.attr
        THEN Ok([values |-> <<[member |-> ident, colon_token |-> TRUE,
                               expr |-> [kind |-> "Call", tok |-> "Default::default()"]]>>,
                 args   |-> <<arg>>])
        ELSE Ok([values |-> <<[member |-> ident, colon_token |-> FALSE,
                               expr |-> [kind |-> "Verbatim", tok |-> ident]]>>,
                 args   |-> <<arg>>])

\* faulty variant: a defaulted field gets no initializer
constructor_filter_map_no_default_value(p) ==
    LET ident   == p.ident
        default == search_for_attribute(p, "default")
    IN  IF default.panic
        THEN Panic(default.msg, [values |-> <<>>, args |-> <<>>])
        ELSE IF default.attr
        THEN Ok([values |-> <<>>, args |-> <<>>])
        ELSE Ok([values |-> <<[member |-> ident, colon_token |-> FALSE,
                               expr |-> [kind |-> "Verbatim", tok |-> ident]]>>,
                 args   |-> <<[p EXCEPT !.attrs = <<>>, !.vis = "Inherited",
                                        !.colon_token = FALSE]>>])

\* the filter_map closure over f.named.into_pairs(): pushes one FieldValue,
\* yields the stripped field as a parameter unless it is defaulted
constructor_filter_map(p) ==
    LET ident   == p.ident
        default == search_for_attribute(p, "default")
    IN  IF default.panic
        THEN Panic(default.msg, [values |-> <<>>, args |-> <<>>])
        ELSE IF default.attr
        THEN Ok([values |-> <<[member |-> ident, colon_token |-> TRUE,
                               expr |-> [kind |-> "Call", tok |-> "Default::default()"]]>>,
                 args   |-> <<>>])
        ELSE Ok([values |-> <<[member |-> ident, colon_token |-> FALSE,
                               expr |-> [kind |-> "Verbatim", tok |-> ident]]>>,
                 args   |-> <<[p EXCEPT !.attrs = <<>>, !.vis = "Inherited",
                                        !.colon_token = FALSE]>>])

\* quote! { impl #name { pub fn new(#args) -> #name { #name { #values } } } }
constructor_expanded(name, as, vs) ==
    [impl |-> name,
     fns  |-> <<[vis |-> "pub", name |-> "new", receiver |-> "",
                 inputs |-> as, output |-> name,
                 body |-> [struct |-> name, fields |-> vs]]>>]

-----------------------------------------------------------------------------
(* getters *)

\* the filter_map closure shared by getters and setters: drops public fields
\* and fields carrying skip
getters_filter_map(p) ==
    IF p.vis = "Public" THEN Ok([keep |-> FALSE])
    ELSE LET skip == search_for_attribute(p, "skip")
         IN  IF skip.panic THEN Panic(skip.msg, [keep |-> FALSE])
             ELSE Ok([keep |-> ~skip.attr])

\* faulty variant: the last path segment is inspected instead of the first
as_slice_ty_last_segment(ty) ==
    IF ty.kind = "Path"
    THEN LET v == ty.segments[Len(ty.segments)]
         IN  IF v.arguments = "AngleBracketed"
             THEN IF v.args = <<>>
                  THEN Panic(OptionUnwrapMsg, [ty |-> ArgType("")])
                  ELSE Ok([ty |-> Head(v.args)])
             ELSE Panic(VectorTypeMsg, [ty |-> ArgType("")])
    ELSE Panic(OnlyVecMsg, [ty |-> ArgType("")])

\* the match on &ty of the as_slice branch: first generic argument of the
\* first path segment
as_slice_ty(ty) ==
    IF ty.kind = "Path"
    THEN LET v == Head(ty.segments)
         IN  IF v.arguments = "AngleBracketed"
             THEN IF v.args = <<>>
                  THEN Panic(OptionUnwrapMsg, [ty |-> ArgType("")])
                  ELSE Ok([ty |-> Head(v.args)])
             ELSE Panic(VectorTypeMsg, [ty |-> ArgType("")])
    ELSE Panic(OnlyVecMsg, [ty |-> ArgType("")])

GetterFn(ident, shape, ty) ==
    [vis |-> "pub", name |-> ident, receiver |-> "&self", inputs |-> <<>>,
     output |-> [shape |-> shape, ty |-> ty],
     body |-> [kind |-> shape, member |-> ident]]

\* faulty variant: as_slice is tested before copy
getters_fold_slice_first(field) ==
    LET copy     == search_for_attribute(field, "copy")
        as_slice == search_for_attribute(field, "as_slice")
        ident    == field.ident
        ty       == field.ty
    IN  IF copy.panic THEN Panic(copy.msg, [stmts |-> <<>>])
        ELSE IF as_slice.panic THEN Panic(as_slice.msg, [stmts |-> <<>>])
        ELSE IF as_slice.attr
        THEN LET e == as_slice_ty(ty)
             IN  IF e.panic THEN Panic(e.msg, [stmts |-> <<>>])
                 ELSE IF e.ty.arg # "Type"
                 THEN Panic(ParseQuoteMsg, [stmts |-> <<>>])
                 ELSE Ok([stmts |-> <<GetterFn(ident, "slice", e.ty)>>])
        ELSE IF copy.attr
        THEN Ok([stmts |-> <<GetterFn(ident, "value", ty)>>])
        ELSE Ok([stmts |-> <<GetterFn(ident, "ref", ty)>>])

\* faulty variant: a failed extraction falls back to the reference accessor
getters_fold_fallback(field) ==
    LET copy     == search_for_attribute(field, "copy")
        as_slice == search_for_attribute(field, "as_slice")
        ident    == field.ident
        ty       == field.ty
    IN  IF copy.panic THEN Panic(copy.msg, [stmts |-> <<>>])
        ELSE IF as_slice.panic THEN Panic(as_slice.msg, [stmts |-> <<>>])
        ELSE IF copy.attr
        THEN Ok([stmts |-> <<GetterFn(ident, "value", ty)>>])
        ELSE IF as_slice.attr
        THEN LET e == as_slice_ty(ty)
             IN  IF e.panic \/ e.ty.arg # "Type"
                 THEN Ok([stmts |-> <<GetterFn(ident, "ref", ty)>>])
                 ELSE Ok([stmts |-> <<GetterFn(ident, "slice", e.ty)>>])
        ELSE Ok([stmts |-> <<GetterFn(ident, "ref", ty)>>])

\* the fold closure of getters: the statement pushed for one retained field
getters_fold(field) ==
    LET copy     == search_for_attribute(field, "copy")
        as_slice == search_for_attribute(field, "as_slice")
        ident    == field.ident
        ty       == field.ty
    IN  IF copy.panic THEN Panic(copy.msg, [stmts |-> <<>>])
        ELSE IF as_slice.panic THEN Panic(as_slice.msg, [stmts |-> <<>>])
        ELSE IF copy.attr
        THEN Ok([stmts |-> <<GetterFn(ident, "value", ty)>>])
        ELSE IF as_slice.attr
        THEN LET e == as_slice_ty(ty)
             IN  IF e.panic THEN Panic(e.msg, [stmts |-> <<>>])
                 ELSE IF e.ty.arg # "Type"
                 THEN Panic(ParseQuoteMsg, [stmts |-> <<>>])
                 ELSE Ok([stmts |-> <<GetterFn(ident, "slice", e.ty)>>])
        ELSE Ok([stmts |-> <<GetterFn(ident, "ref", ty)>>])

\* one element through filter_map and fold
getters_pair(p) ==
    LET k == getters_filter_map(p)
    IN  IF k.panic THEN Panic(k.msg, [stmts |-> <<>>])
        ELSE IF ~k.keep THEN Ok([stmts |-> <<>>])
        ELSE getters_fold(p)

-----------------------------------------------------------------------------
(* setters *)

\* faulty variant: skip is not consulted
setters_filter_map_ignores_skip(p) ==
    IF p.vis = "Public" THEN Ok([keep |-> FALSE])
    ELSE LET skip == search_for_attribute(p, "skip")
         IN  IF skip.panic THEN Panic(skip.msg, [keep |-> FALSE])
             ELSE Ok([keep |-> TRUE])

setters_filter_map(p) ==
    IF p.vis = "Public" THEN Ok([keep |-> FALSE])
    ELSE LET skip == search_for_attribute(p, "skip")
         IN  IF skip.panic THEN Panic(skip.msg, [keep |-> FALSE])
             ELSE Ok([keep |-> ~skip.attr])

SetterFns(ident, ty) ==
    << [vis |-> "pub", name |-> "set_" \o ident, receiver |-> "&mut self",
        inputs |-> <<[ident |-> "v", ty |-> ty]>>,
        output |-> [shape |-> "unit", ty |-> ty],
        body |-> [kind |-> "assign", member |-> ident]],
       [vis |-> "pub", name |-> ident \o "_as_mut", receiver |-> "&mut self",
        inputs |-> <<>>,
        output |-> [shape |-> "refmut", ty |-> ty],
        body |-> [kind |-> "refmut", member |-> ident]] >>

\* faulty variant: the setters treat as_slice as the getters do
setters_fold_extracts(field) ==
    LET as_slice == search_for_attribute(field, "as_slice")
        e        == as_slice_ty(field.ty)
    IN  IF as_slice.attr /\ e.panic THEN Panic(e.msg, [stmts |-> <<>>])
        ELSE IF as_slice.attr
        THEN Ok([stmts |-> <<SetterFns(field.ident, field.ty)[1]>>])
        ELSE Ok([stmts |-> SetterFns(field.ident, field.ty)])

\* the fold closure of setters: the two statements pushed for one retained field
setters_fold(field) ==
    LET ident == field.ident
        ty    == field.ty
    IN  Ok([stmts |-> SetterFns(ident, ty)])

setters_pair(p) ==
    LET k == setters_filter_map(p)
    IN  IF k.panic THEN Panic(k.msg, [stmts |-> <<>>])
        ELSE IF ~k.keep THEN Ok([stmts |-> <<>>])
        ELSE setters_fold(p)

\* quote! { impl #name #block }
block_expanded(name, stmts) == [impl |-> name, fns |-> stmts]

-----------------------------------------------------------------------------
(* The invocation *)

\* Data::Struct(DataStruct { fields: Fields::Named(f), .. }) => f.named ...
\* _ => Punctuated::new()  /  _ => syn::parse_str("{}")
named == IF input.data = "Named" THEN input.fields ELSE <<>>

Init ==
    /\ \/ \E n \in 0..MaxFields : \E c \in [1..n -> GenShapes] : input = GenInput(c)
       \/ input \in SmallInputs
    /\ derive \in Derives
    /\ pc = "run"
    /\ i = 0
    /\ values = <<>>
    /\ args = <<>>
    /\ block = <<>>
    /\ expanded = NoTokens
    /\ msg = ""

ConstructorField ==
    /\ pc = "run" /\ derive = "Constructor" /\ i < Len(named)
    /\ LET r == constructor_filter_map(named[i + 1])
       IN  IF r.panic
           THEN /\ pc' = "panic" /\ msg' = r.msg
                /\ UNCHANGED <<i, values, args>>
           ELSE /\ values' = values \o r.values
                /\ args' = args \o r.args
                /\ i' = i + 1
                /\ UNCHANGED <<pc, msg>>
    /\ UNCHANGED <<input, derive, block, expanded>>

ConstructorExpand ==
    /\ pc = "run" /\ derive = "Constructor" /\ i = Len(named)
    /\ expanded' = constructor_expanded(input.ident, args, values)
    /\ pc' = "done"
    /\ UNCHANGED <<input, derive, i, values, args, block, msg>>

\* faulty variant: on a panic the statements gathered so far are returned
GettersField_partial ==
    /\ pc = "run" /\ derive = "Getters" /\ i < Len(named)
    /\ LET r == getters_pair(named[i + 1])
       IN  IF r.panic
           THEN /\ pc' = "panic" /\ msg' = r.msg
                /\ expanded' = block_expanded(input.ident, block)
                /\ UNCHANGED <<i, block>>
           ELSE /\ block' = block \o r.stmts
                /\ i' = i + 1
                /\ UNCHANGED <<pc, msg, expanded>>
    /\ UNCHANGED <<input, derive, values, args>>

GettersField ==
    /\ pc = "run" /\ derive = "Getters" /\ i < Len(named)
    /\ LET r == getters_pair(named[i + 1])
       IN  IF r.panic
           THEN /\ pc' = "panic" /\ msg' = r.msg
                /\ UNCHANGED <<i, block>>
           ELSE /\ block' = block \o r.stmts
                /\ i' = i + 1
                /\ UNCHANGED <<pc, msg>>
    /\ UNCHANGED <<input, derive, values, args, expanded>>

GettersExpand ==
    /\ pc = "run" /\ derive = "Getters" /\ i = Len(named)
    /\ expanded' = block_expanded(input.ident, block)
    /\ pc' = "done"
    /\ UNCHANGED <<input, derive, i, values, args, block, msg>>

SettersField ==
    /\ pc = "run" /\ derive = "Setters" /\ i < Len(named)
    /\ LET r == setters_pair(named[i + 1])
       IN  IF r.panic
           THEN /\ pc' = "panic" /\ msg' = r.msg
                /\ UNCHANGED <<i, block>>
           ELSE /\ block' = block \o r.stmts
                /\ i' = i + 1
                /\ UNCHANGED <<pc, msg>>
    /\ UNCHANGED <<input, derive, values, args, expanded>>

SettersExpand ==
    /\ pc = "run" /\ derive = "Setters" /\ i = Len(named)
    /\ expanded' = block_expanded(input.ident, block)
    /\ pc' = "done"
    /\ UNCHANGED <<input, derive, i, values, args, block, msg>>

Next ==
    \/ ConstructorField
    \/ ConstructorExpand
    \/ GettersField
    \/ GettersExpand
    \/ SettersField
    \/ SettersExpand

Spec == Init /\ [][Next]_vars

-----------------------------------------------------------------------------
(* Vocabulary of the properties *)

Directives == {"default", "skip", "copy", "as_slice"}

\* some nested item of some grouping attribute leads with the identifier token
HasDirective(f, token) ==
    \E a \in 1..Len(f.attrs) :
        /\ f.attrs[a].meta = "List"
        /\ \E n \in 1..Len(f.attrs[a].nested) :
              LET item == f.attrs[a].nested[n]
              IN  item.nm = "Meta" /\ item.tt = "Ident" /\ item.s = token

\* some attribute of the field is no well-formed meta
Malformed(f) == \E a \in 1..Len(f.attrs) : f.attrs[a].meta = "Err"

\* the field is exposed by getters and setters
Eligible(f) == f.vis # "Public" /\ ~HasDirective(f, "skip")

\* the field takes the as_slice branch of getters
SliceField(f) ==
    Eligible(f) /\ ~HasDirective(f, "copy") /\ HasDirective(f, "as_slice")

\* the declared type is a path that nowhere carries a generic argument list
BareScalar(ty) ==
    /\ ty.kind = "Path"
    /\ \A k \in 1..Len(ty.segments) : ty.segments[k].arguments = "None"

\* the declared type is Container<T, ..>: one segment, angle-bracketed
\* arguments, the first of them a type
Container(ty) ==
    /\ ty.kind = "Path"
    /\ Len(ty.segments) = 1
    /\ ty.segments[1].arguments = "AngleBracketed"
    /\ ty.segments[1].args # <<>>
    /\ ty.segments[1].args[1].arg = "Type"

\* the functions of the returned fragment whose body works on field ident
FnsOf(ident) ==
    {n \in 1..Len(expanded.fns) : expanded.fns[n].body.member = ident}

Returned(d) == pc = "done" /\ derive = d /\ input.data = "Named"

\* the field at which the invocation stopped
Current == named[i + 1]

-----------------------------------------------------------------------------
(* Properties *)

\* C1: when Constructor returns for a struct with N named fields of which k
\* carry default, the fragment is the one function new, with exactly N - k
\* parameters: the non-defaulted fields, in declaration order, each with the
\* field's name and declared type, stripped of attributes and visibility.
C1_ConstructorParameters ==
    Returned("Constructor") =>
        LET fs     == input.fields
            k      == Cardinality({j \in 1..Len(fs) : HasDirective(fs[j], "default")})
            plain  == SelectSeq(fs, LAMBDA f : ~HasDirective(f, "default"))
            inputs == expanded.fns[1].inputs
        IN  /\ Len(expanded.fns) = 1
            /\ expanded.fns[1].name = "new"
            /\ Len(inputs) = Len(fs) - k
            /\ Len(inputs) = Len(plain)
            /\ \A j \in 1..Len(inputs) :
                  /\ inputs[j].ident = plain[j].ident
                  /\ inputs[j].ty = plain[j].ty
                  /\ inputs[j].attrs = <<>>
                  /\ inputs[j].vis = "Inherited"

\* a defaulted field before a plain one: new takes the second field alone
C1_Witness ==
    /\ Returned("Constructor")
    /\ Len(input.fields) = 2
    /\ HasDirective(input.fields[1], "default")
    /\ ~HasDirective(input.fields[2], "default")
    /\ Len(expanded.fns[1].inputs) = 1
    /\ expanded.fns[1].inputs[1].ident = "b"

\* C7: when Constructor returns for a struct with N named fields, the struct
\* expression in the body of new has exactly N initializers, one per field in
\* declaration order; the initializer is the call Default::default() exactly
\* when the field carries default, and otherwise the parameter of the same name.
C7_ConstructorInitializers ==
    Returned("Constructor") =>
        LET fs   == input.fields
            body == expanded.fns[1].body
        IN  /\ body.struct = input.ident
            /\ Len(body.fields) = Len(fs)
            /\ \A j \in 1..Len(fs) :
                  /\ body.fields[j].member = fs[j].ident
                  /\ (body.fields[j].expr.kind = "Call") <=> HasDirective(fs[j], "default")
                  /\ IF HasDirective(fs[j], "default")
                     THEN body.fields[j].expr.tok = "Default::default()"
                     ELSE body.fields[j].expr = [kind |-> "Verbatim", tok |-> fs[j].ident]

\* a plain field before a defaulted one: two initializers, the second a call
C7_Witness ==
    /\ Returned("Constructor")
    /\ Len(input.fields) = 2
    /\ ~HasDirective(input.fields[1], "default")
    /\ HasDirective(input.fields[2], "default")
    /\ Len(expanded.fns[1].body.fields) = 2
    /\ expanded.fns[1].body.fields[2].expr.kind = "Call"

\* C2: when Getters or Setters returns for a struct with named fields, a field
\* that is public or carries skip has no function in the fragment, and every
\* other field has exactly one function from Getters, exactly two from Setters.
C2_AccessorCounts ==
    (Returned("Getters") \/ Returned("Setters")) =>
        \A j \in 1..Len(input.fields) :
            LET f == input.fields[j]
            IN  Cardinality(FnsOf(f.ident)) =
                    IF f.vis = "Public" \/ HasDirective(f, "skip") THEN 0
                    ELSE IF derive = "Getters" THEN 1 ELSE 2

\* Setters on a private skip field and a private plain field: two functions
C2_Witness ==
    /\ Returned("Setters")
    /\ Len(input.fields) = 2
    /\ input.fields[1].vis = "Inherited" /\ HasDirective(input.fields[1], "skip")
    /\ Eligible(input.fields[2])
    /\ Cardinality(FnsOf("a")) = 0
    /\ Cardinality(FnsOf("b")) = 2

\* C3: on an input that is no struct with named fields, each of the three
\* generations raises no error and returns a fragment without any function.
C3_NonRecordEmpty ==
    input.data # "Named" =>
        /\ pc # "panic"
        /\ pc = "done" => Len(expanded.fns) = 0

\* the first generic argument of the first path segment
FirstArgument(ty) == ty.segments[1].args[1]

\* the one accessor Getters returned for the field
GetterOf(f) == expanded.fns[CHOOSE n \in FnsOf(f.ident) : TRUE]

\* C4: when Getters returns, the accessor of every non-public, non-skip field
\* has its shape by the priority copy > as_slice > default: with copy (with or
\* without as_slice) it returns the declared type by value; with as_slice and
\* no copy a slice of the first generic argument; with neither a reference to
\* the declared type.  So two fields of one type of which only one carries
\* copy get accessors with different return shapes.
C4_GetterShape ==
    Returned("Getters") =>
        /\ \A j \in 1..Len(input.fields) :
              LET f == input.fields[j]
              IN  Eligible(f) =>
                    /\ FnsOf(f.ident) # {}
                    /\ GetterOf(f).name = f.ident
                    /\ GetterOf(f).output =
                          IF HasDirective(f, "copy")
                          THEN [shape |-> "value", ty |-> f.ty]
                          ELSE IF HasDirective(f, "as_slice")
                          THEN [shape |-> "slice", ty |-> FirstArgument(f.ty)]
                          ELSE [shape |-> "ref", ty |-> f.ty]
        /\ \A j, k \in 1..Len(input.fields) :
              LET f == input.fields[j]
                  g == input.fields[k]
              IN  ( /\ Eligible(f) /\ Eligible(g)
                    /\ f.ty = g.ty
                    /\ HasDirective(f, "copy") /\ ~HasDirective(g, "copy") )
                  => GetterOf(f).output.shape # GetterOf(g).output.shape

\* two private Vec<u8> fields, both as_slice, only the first copy
C4_Witness ==
    /\ Returned("Getters")
    /\ Len(input.fields) = 2
    /\ input.fields[1].ty = input.fields[2].ty
    /\ Eligible(input.fields[1]) /\ Eligible(input.fields[2])
    /\ HasDirective(input.fields[1], "copy") /\ HasDirective(input.fields[1], "as_slice")
    /\ ~HasDirective(input.fields[2], "copy") /\ HasDirective(input.fields[2], "as_slice")
    /\ GetterOf(input.fields[1]).output.shape = "value"
    /\ GetterOf(input.fields[2]).output.shape = "slice"

\* C5 as stated: every field carrying as_slice, if its declared type is
\* Container<T>, has an accessor returning a slice of T, and if its declared
\* type is a bare scalar, makes Getters abort: Getters never returns for a
\* struct holding such a field.
C5_AsSliceAnyField ==
    Returned("Getters") =>
        \A j \in 1..Len(input.fields) :
            LET f == input.fields[j]
            IN  HasDirective(f, "as_slice") =>
                  /\ ~BareScalar(f.ty)
                  /\ Container(f.ty) =>
                        /\ FnsOf(f.ident) # {}
                        /\ GetterOf(f).output =
                              [shape |-> "slice", ty |-> FirstArgument(f.ty)]

\* C5 amended: the same of a field that carries as_slice, is not public and
\* carries neither skip nor copy.  Getters never gets past such a field of a
\* bare scalar type: it panics there with "Vector type expected", and returns
\* nothing.
C5_AsSliceField ==
    (derive = "Getters" /\ input.data = "Named") =>
        /\ \A j \in 1..Len(input.fields) :
              LET f == input.fields[j]
              IN  (SliceField(f) /\ BareScalar(f.ty)) => (i < j /\ pc # "done")
        /\ pc = "done" =>
              \A j \in 1..Len(input.fields) :
                  LET f == input.fields[j]
                  IN  (SliceField(f) /\ Container(f.ty)) =>
                        /\ FnsOf(f.ident) # {}
                        /\ GetterOf(f).output =
                              [shape |-> "slice", ty |-> FirstArgument(f.ty)]
        /\ (pc = "panic" /\ SliceField(Current) /\ ~Malformed(Current)
                /\ BareScalar(Current.ty))
              => (msg = VectorTypeMsg /\ expanded = NoTokens)

\* Getters stopped at a private as_slice field of type u8
C5_Witness ==
    /\ derive = "Getters" /\ input.data = "Named"
    /\ pc = "panic"
    /\ SliceField(Current)
    /\ Current.ty = TyU8
    /\ msg = VectorTypeMsg

\* C6: search_for_attribute never fails, whatever the attributes of the field,
\* and answers true exactly when some nested item of some grouping attribute
\* leads with the identifier asked for.  Stated of the fields the invocation
\* has scanned: none of them stopped it, and the scanner's answer on each is
\* the expected one.
C6_ScannerTotal ==
    /\ msg # ResultUnwrapMsg
    /\ \A j \in 1..i : \A token \in Directives :
          LET r == search_for_attribute(named[j], token)
          IN  ~r.panic /\ (r.attr <=> HasDirective(named[j], token))

\* the attributes of a field without their copy and as_slice items
RECURSIVE WithoutCopyAsSlice(_)
WithoutCopyAsSlice(fs) ==
    IF fs = <<>> THEN <<>>
    ELSE LET f    == Head(fs)
             keep(item) ==
                        ~(item.nm = "Meta" /\ item.tt = "Ident"
                            /\ item.s \in {"copy", "as_slice"})
             at   == [a \in 1..Len(f.attrs) |->
                        [f.attrs[a] EXCEPT !.nested = SelectSeq(f.attrs[a].nested, keep)]]
         IN  <<[f EXCEPT !.attrs = at]>> \o WithoutCopyAsSlice(Tail(fs))

\* what the filter_map and fold of setters make of a whole field list
RECURSIVE SettersOn(_)
SettersOn(fs) ==
    IF fs = <<>> THEN <<>>
    ELSE setters_pair(Head(fs)).stmts \o SettersOn(Tail(fs))

C9_States ==
    /\ pc \in {"run", "done", "panic"}
    /\ pc = "done" =>
          /\ i = Len(named)
          /\ msg = ""
          /\ expanded.impl = input.ident
          /\ derive # "Constructor" => expanded.fns = block
    /\ pc # "done" => expanded = NoTokens
    /\ pc = "panic" <=> msg # ""

\* C9: every generation request either completes and returns the whole
\* fragment or aborts; an aborted Getters returns no function at all, not even
\* the accessors made for the fields before the offending one; and nothing is
\* retried: a step is taken only by a running invocation and never goes back
\* to an earlier field.
C9_TwoOutcomes ==
    /\ []C9_States
    /\ [][pc = "run" /\ i' >= i /\ (pc' = "run" => i' = i + 1)]_vars

\* Getters panicked on a failed extraction after it had made an accessor
C9_Witness ==
    /\ derive = "Getters" /\ pc = "panic"
    /\ msg \in {VectorTypeMsg, OnlyVecMsg}
    /\ i = 1 /\ Len(block) = 1
    /\ SliceField(Current)
    /\ expanded.fns = <<>>

\* C10 as stated: the extraction fails with "generic container type expected"
\* when the first segment of the path has no argument list, and with
\* "container type expected" when the declared type is no path.
C10_SpecMessages ==
    (derive = "Getters" /\ pc = "panic" /\ SliceField(Current) /\ ~Malformed(Current)) =>
        LET ty == Current.ty
        IN  /\ (ty.kind = "Path" /\ ty.segments[1].arguments # "AngleBracketed")
                  => msg = "generic container type expected"
            /\ ty.kind # "Path" => msg = "container type expected"

\* C10 amended: the extraction looks only at the first segment of the path.
\* Getters returns for an as_slice field only when that segment has a
\* non-empty angle-bracketed argument list, whose first argument is then the
\* element type of the slice.  It panics with "Vector type expected" when the
\* first segment has no angle-bracketed list (also when a later segment has
\* one), with the distinct "as_slice is expected only for Vec types" when the
\* declared type is no path, on Option::unwrap when the list is empty, and in
\* parse_quote! when the first argument is no type.
C10_Extraction ==
    (derive = "Getters" /\ input.data = "Named") =>
        /\ pc = "done" =>
              \A j \in 1..Len(input.fields) :
                  LET f == input.fields[j]
                  IN  SliceField(f) =>
                        /\ f.ty.kind = "Path"
                        /\ f.ty.segments[1].arguments = "AngleBracketed"
                        /\ f.ty.segments[1].args # <<>>
                        /\ GetterOf(f).output =
                              [shape |-> "slice", ty |-> f.ty.segments[1].args[1]]
        /\ (pc = "panic" /\ SliceField(Current) /\ ~Malformed(Current)) =>
              LET ty == Current.ty
              IN  msg = IF ty.kind # "Path" THEN OnlyVecMsg
                        ELSE IF ty.segments[1].arguments # "AngleBracketed"
                             THEN VectorTypeMsg
                        ELSE IF ty.segments[1].args = <<>> THEN OptionUnwrapMsg
                        ELSE ParseQuoteMsg
        /\ VectorTypeMsg # OnlyVecMsg

\* Getters panicked at std::vec::Vec<u8>, whose last segment has the list
C10_Witness ==
    /\ derive = "Getters" /\ pc = "panic"
    /\ SliceField(Current)
    /\ Current.ty = TyStdVec
    /\ msg = VectorTypeMsg

=============================================================================
